---- MODULE Spec2Model ----
(***************************************************************************)
(* A model of orchestrator.py: the start-up (load_config, the parsing of   *)
(* the cron-like schedule and its registration with the `schedule`         *)
(* package), the main polling loop, the backup cycle (backup_job) and the  *)
(* per-node invoker (run_vzdump).                                          *)
(*                                                                         *)
(* The program is one thread; `pc` is its position.  Wall-clock time is    *)
(* `now`, in seconds since 00:00:00 of day 0.  Python values that may be   *)
(* of more than one type carry their type (PyStr, PyInt); text is a        *)
(* sequence of one-character strings where the code looks into it          *)
(* (the schedule), and a TLA+ string where it only passes it on.           *)
(*                                                                         *)
(* The `schedule` package is not part of the repository; what the program  *)
(* uses of it (Job.at, Job.do, Job.should_run, Job.run,                    *)
(* Job._schedule_next_run, Scheduler.run_pending) is modelled as the 1.x   *)
(* releases behave, at the lines of orchestrator.py that call it.          *)
(***************************************************************************)
EXTENDS Integers, Sequences, FiniteSets, TLC

VARIABLES
    pc,         \* position of the program
    now,        \* wall clock, seconds
    config,     \* what load_config returned
    jobs,       \* schedule.jobs: the registered jobs
    idx,        \* backup_job: index of the node of the for loop
    ret,        \* what run_vzdump returned for node idx
    inflight,   \* remote invocations (ssh child processes) running
    log,        \* log entries since the start of the current cycle (the
                \* program never reads its log: older entries are left out)
    exitCode,   \* exit status of the process, -1 while it runs
    cycles,     \* number of cycles started
    invoked,    \* nodes run_vzdump was called for in the current cycle
    firedFor,   \* the due times (next_run) the cycles were started for
    caught,     \* number of faults the main loop caught
    startedAt,  \* the time the program started
    interruptedAt \* position at which the interrupt arrived, "" if none

vars == <<pc, now, config, jobs, idx, ret, inflight, log, exitCode, cycles,
          invoked, firedFor, caught, startedAt, interruptedAt>>

----------------------------------------------------------------------------
(* Bounds of the model *)

\* most nodes in a configuration
MaxNodes == 3
\* cycles started in one run of the program
MaxCycles == 2
\* seconds of the run after which the loop is no longer followed
MaxElapsed == 150
\* The longest exclusion list
MaxExclude == 2
\* a remote backup that ends by itself: a short one, and one over a minute
ShortRun == 3
LongRun == 70
\* a start of the program late in the day, 23:59:00
LateStart == 86340

(* Constants of the program *)

WarmUpDelay == 5
PollInterval == 10
InvocationTimeout == 1200
FieldCount == 5

(* Constants of the clock *)
SecondsPerMinute == 60
SecondsPerHour == 3600
SecondsPerDay == 86400

----------------------------------------------------------------------------
(* Python values; the value of a string is its text, a sequence of pieces *)

PyStr(s) == [type |-> "str", val |-> s]
PyInt(n) == [type |-> "int", val |-> n]
PyList(l) == [type |-> "list", val |-> l]

\* bool(x) of a list: a list is true when it is not empty
Truthy(x) == IF x.type = "list" THEN Len(x.val) > 0 ELSE TRUE

----------------------------------------------------------------------------
(* Text of the schedule: sequences of characters *)

Digits == {"0", "1", "2", "3", "4", "5", "6", "7", "8", "9"}

DigitVal(c) ==
    CASE c = "0" -> 0 [] c = "1" -> 1 [] c = "2" -> 2 [] c = "3" -> 3
      [] c = "4" -> 4 [] c = "5" -> 5 [] c = "6" -> 6 [] c = "7" -> 7
      [] c = "8" -> 8 [] c = "9" -> 9

\* int(s) of a text of digits
RECURSIVE IntOf(_)
IntOf(s) ==
    IF Len(s) = 0 THEN 0
    ELSE 10 * IntOf(SubSeq(s, 1, Len(s) - 1)) + DigitVal(s[Len(s)])

\* str() of a non-negative int: its decimal digits
RECURSIVE IntText(_)
IntText(n) ==
    LET d == CHOOSE c \in Digits : DigitVal(c) = n % 10 IN
    IF n < 10 THEN <<d>> ELSE IntText(n \div 10) \o <<d>>

\* str(x): a string is itself, an int its digits
Str(x) ==
    IF x.type = "str" THEN x
    ELSE IF x.type = "int" THEN PyStr(IntText(x.val))
    ELSE [type |-> "str", val |-> x.val]

\* s.split(): the maximal runs of non-blank characters
RECURSIVE SplitFrom(_, _, _)
SplitFrom(s, i, word) ==
    IF i > Len(s)
    THEN IF Len(word) > 0 THEN <<word>> ELSE <<>>
    ELSE IF s[i] = " "
         THEN IF Len(word) > 0
              THEN <<word>> \o SplitFrom(s, i + 1, <<>>)
              ELSE SplitFrom(s, i + 1, <<>>)
         ELSE SplitFrom(s, i + 1, Append(word, s[i]))

Split(s) == SplitFrom(s, 1, <<>>)

\* s.zfill(2): zeros on the left up to two characters, after a sign
Zfill2(s) ==
    IF Len(s) >= 2 THEN s
    ELSE IF Len(s) = 1 /\ s[1] \in {"+", "-"} THEN s \o <<"0">>
    ELSE IF Len(s) = 1 THEN <<"0">> \o s
    ELSE <<"0", "0">>

----------------------------------------------------------------------------
(* schedule.Job.at: the checks of the time text, and the time it sets *)

\* ^([0-5]\d)?:[0-5]\d$
MatchHourly(t) ==
    \/ /\ Len(t) = 3
       /\ t[1] = ":"
       /\ t[2] \in {"0", "1", "2", "3", "4", "5"}
       /\ t[3] \in Digits
    \/ /\ Len(t) = 5
       /\ t[1] \in {"0", "1", "2", "3", "4", "5"}
       /\ t[2] \in Digits
       /\ t[3] = ":"
       /\ t[4] \in {"0", "1", "2", "3", "4", "5"}
       /\ t[5] \in Digits

\* ^[0-2]\d:[0-5]\d(:[0-5]\d)?$
MatchDaily(t) ==
    /\ Len(t) \in {5, 8}
    /\ t[1] \in {"0", "1", "2"}
    /\ t[2] \in Digits
    /\ t[3] = ":"
    /\ t[4] \in {"0", "1", "2", "3", "4", "5"}
    /\ t[5] \in Digits
    /\ Len(t) = 8 =>
          /\ t[6] = ":"
          /\ t[7] \in {"0", "1", "2", "3", "4", "5"}
          /\ t[8] \in Digits

\* Job.at(t) of an hourly job: the time of the hour it sets, or the
\* exception it raises.  ScheduleValueError derives from ScheduleError, which
\* derives from Exception: it is no ValueError.
AtHourly(t) ==
    IF ~MatchHourly(t) THEN [raised |-> "ScheduleValueError", at_time |-> <<>>]
    ELSE IF Len(t) = 3
         THEN [raised |-> "", at_time |-> <<0, IntOf(SubSeq(t, 2, 3)), 0>>]
         ELSE [raised |-> "",
               at_time |-> <<0, IntOf(SubSeq(t, 1, 2)), IntOf(SubSeq(t, 4, 5))>>]

\* Job.at(t) of a daily job
AtDaily(t) ==
    IF ~MatchDaily(t) THEN [raised |-> "ScheduleValueError", at_time |-> <<>>]
    ELSE IF IntOf(SubSeq(t, 1, 2)) > 23
         THEN [raised |-> "ScheduleValueError", at_time |-> <<>>]
         ELSE [raised |-> "",
               at_time |-> <<IntOf(SubSeq(t, 1, 2)), IntOf(SubSeq(t, 4, 5)),
                             IF Len(t) = 8 THEN IntOf(SubSeq(t, 7, 8)) ELSE 0>>]

\* Job._schedule_next_run at time t: the first occurrence after t
NextRunAligned(unit, at_time, t) ==
    CASE unit = "minutes" -> t - (t % SecondsPerMinute) + SecondsPerMinute
      [] unit = "hours" ->
            LET cand == t - (t % SecondsPerHour)
                          + at_time[2] * SecondsPerMinute + at_time[3]
            IN  IF cand <= t THEN cand + SecondsPerHour ELSE cand
      [] unit = "days" ->
            LET cand == t - (t % SecondsPerDay) + at_time[1] * SecondsPerHour
                          + at_time[2] * SecondsPerMinute + at_time[3]
            IN  IF cand <= t THEN cand + SecondsPerDay ELSE cand

NextRunNoRollover(unit, at_time, t) ==
    CASE unit = "minutes" -> t + SecondsPerMinute
      [] unit = "hours" ->
            t - (t % SecondsPerHour) + at_time[2] * SecondsPerMinute + at_time[3]
      [] unit = "days" ->
            t - (t % SecondsPerDay) + at_time[1] * SecondsPerHour
              + at_time[2] * SecondsPerMinute + at_time[3]

NextRun(unit, at_time, t) ==
    CASE unit = "minutes" -> t + SecondsPerMinute
      [] unit = "hours" ->
            LET cand == t - (t % SecondsPerHour)
                          + at_time[2] * SecondsPerMinute + at_time[3]
            IN  IF cand <= t THEN cand + SecondsPerHour ELSE cand
      [] unit = "days" ->
            LET cand == t - (t % SecondsPerDay) + at_time[1] * SecondsPerHour
                          + at_time[2] * SecondsPerMinute + at_time[3]
            IN  IF cand <= t THEN cand + SecondsPerDay ELSE cand

JobDueAtOnce(unit, at_time, t) ==
    [unit |-> unit, at_time |-> at_time, next_run |-> t, last_run |-> -1]

\* Job.do at time t: the job as it is appended to schedule.jobs
Job(unit, at_time, t) ==
    [unit |-> unit, at_time |-> at_time, next_run |-> NextRun(unit, at_time, t),
     last_run |-> -1]

\* ShouldRun with every job due at every poll
ShouldRunAlways(job, t) == TRUE

\* Job.should_run
ShouldRun(job, t) == t >= job.next_run

----------------------------------------------------------------------------
(* main, lines 113-137: from the schedule text to the registered job *)

\* ParseSchedule with the second test made on the minute field
ParseScheduleMinuteFirst(text, t) ==
    LET parts == Split(text) IN
    IF Len(parts) # FieldCount
    THEN [raised |-> "ValueError", jobs |-> <<>>]
    ELSE LET minute == parts[1]
             hour == parts[2]
         IN  IF hour = <<"*">> /\ minute = <<"*">>
             THEN [raised |-> "", jobs |-> <<Job("minutes", <<>>, t)>>]
             ELSE IF minute = <<"*">>
             THEN LET at == AtHourly(<<":">> \o Zfill2(minute)) IN
                  IF at.raised # "" THEN [raised |-> at.raised, jobs |-> <<>>]
                  ELSE [raised |-> "", jobs |-> <<Job("hours", at.at_time, t)>>]
             ELSE LET at == AtDaily(Zfill2(hour) \o <<":">> \o Zfill2(minute)) IN
                  IF at.raised # "" THEN [raised |-> at.raised, jobs |-> <<>>]
                  ELSE [raised |-> "", jobs |-> <<Job("days", at.at_time, t)>>]

\* The try block: what it registers, or the exception it raises
ParseSchedule(text, t) ==
    LET parts == Split(text) IN
    IF Len(parts) # FieldCount
    THEN [raised |-> "ValueError", jobs |-> <<>>]
    ELSE LET minute == parts[1]
             hour == parts[2]
         IN  IF hour = <<"*">> /\ minute = <<"*">>
             THEN [raised |-> "", jobs |-> <<Job("minutes", <<>>, t)>>]
             ELSE IF hour = <<"*">>
             THEN LET at == AtHourly(<<":">> \o Zfill2(minute)) IN
                  IF at.raised # "" THEN [raised |-> at.raised, jobs |-> <<>>]
                  ELSE [raised |-> "", jobs |-> <<Job("hours", at.at_time, t)>>]
             ELSE LET at == AtDaily(Zfill2(hour) \o <<":">> \o Zfill2(minute)) IN
                  IF at.raised # "" THEN [raised |-> at.raised, jobs |-> <<>>]
                  ELSE [raised |-> "", jobs |-> <<Job("days", at.at_time, t)>>]

\* Line 114 first reads config['schedule']: a KeyError when it is missing
Startup(cfg, t) ==
    IF "schedule" \notin DOMAIN cfg THEN [raised |-> "KeyError", jobs |-> <<>>]
    ELSE ParseSchedule(cfg["schedule"], t)

\* except ValueError: the only exception of the try block main handles
HandledAtStartup(e) == e = "ValueError"

----------------------------------------------------------------------------
(* run_vzdump, lines 38-66: the command *)

HasKey(d, k) == k \in DOMAIN d

\* The keys lines 43-52 read, in the order they read them
FirstMissing(node_config, cfg) ==
    IF ~HasKey(node_config, "fqdn") THEN "fqdn"
    ELSE IF ~HasKey(cfg, "mailto") THEN "mailto"
    ELSE IF ~HasKey(cfg, "fleecing") THEN "fleecing"
    ELSE IF ~HasKey(cfg, "bwlimit") THEN "bwlimit"
    ELSE IF ~HasKey(cfg, "pbs_storage") THEN "pbs_storage"
    ELSE IF ~HasKey(cfg, "notes_template") THEN "notes_template"
    ELSE IF ~HasKey(cfg, "mailnotification") THEN "mailnotification"
    ELSE IF ~HasKey(node_config, "shortname") THEN "shortname"
    ELSE ""

\* ExcludeList with the global list looked up before the node's
ExcludeListGlobalFirst(node_config, cfg) ==
    IF HasKey(cfg, "exclude_vms") THEN cfg["exclude_vms"]
    ELSE IF HasKey(node_config, "exclude_vms") THEN node_config["exclude_vms"]
    ELSE PyList(<<>>)

\* ExcludeList with an empty node list falling back to the global list
ExcludeListNonEmptyFirst(node_config, cfg) ==
    IF HasKey(node_config, "exclude_vms") /\ Truthy(node_config["exclude_vms"])
    THEN node_config["exclude_vms"]
    ELSE IF HasKey(cfg, "exclude_vms") THEN cfg["exclude_vms"]
    ELSE PyList(<<>>)

\* Lines 57-62
ExcludeList(node_config, cfg) ==
    IF HasKey(node_config, "exclude_vms") THEN node_config["exclude_vms"]
    ELSE IF HasKey(cfg, "exclude_vms") THEN cfg["exclude_vms"]
    ELSE PyList(<<>>)

\* str() of a list element, as text
StrText(x) == IF x.type = "int" THEN IntText(x.val) ELSE x.val

\* Line 65: ','.join(map(str, exclude_list))
RECURSIVE JoinComma(_)
JoinComma(l) ==
    IF Len(l) = 0 THEN <<>>
    ELSE IF Len(l) = 1 THEN StrText(l[1])
    ELSE StrText(l[1]) \o <<",">> \o JoinComma(Tail(l))

\* Lines 38-66, all keys present
SshCommand(node_config, cfg) ==
    LET exclude_list == ExcludeList(node_config, cfg) IN
    << PyStr(<<"/usr/bin/ssh">>), PyStr(<<"-p">>), PyStr(<<"22">>),
       PyStr(<<"-o">>), PyStr(<<"StrictHostKeyChecking=no">>),
       PyStr(<<"-o">>), PyStr(<<"UserKnownHostsFile=/dev/null">>),
       PyStr(<<"root@">> \o Str(node_config["fqdn"]).val),
       PyStr(<<"vzdump">>), PyStr(<<"--mode">>), PyStr(<<"snapshot">>),
       PyStr(<<"--mailto">>), cfg["mailto"],
       PyStr(<<"--fleecing">>), Str(cfg["fleecing"]),
       PyStr(<<"--bwlimit">>), Str(cfg["bwlimit"]),
       PyStr(<<"--storage">>), cfg["pbs_storage"],
       PyStr(<<"--notes-template">>), cfg["notes_template"],
       PyStr(<<"--mailnotification">>), cfg["mailnotification"],
       PyStr(<<"--node">>), node_config["shortname"],
       PyStr(<<"--all">>), PyStr(<<"1">>) >>
    \o IF Truthy(exclude_list)
       THEN <<PyStr(<<"--exclude">>), PyStr(JoinComma(exclude_list.val))>>
       ELSE <<>>

\* Lines 38-69, before the try block: the command, or the exception raised
\* (a KeyError of a subscript, a TypeError of ' '.join on a non-string)
BuildCommand(node_config, cfg) ==
    IF FirstMissing(node_config, cfg) # ""
    THEN [raised |-> "KeyError", cmd |-> <<>>]
    ELSE LET cmd == SshCommand(node_config, cfg) IN
         IF \E i \in 1..Len(cmd) : cmd[i].type # "str"
         THEN [raised |-> "TypeError", cmd |-> <<>>]
         ELSE [raised |-> "", cmd |-> cmd]

----------------------------------------------------------------------------
(* run_vzdump, lines 71-89: the try block around subprocess.run *)

\* RunResult with every outcome taken for a failure
RunResultAlwaysFails(e) == FALSE

\* RunResult with the timeout taken for an end of the backup
RunResultTimeoutPasses(e) ==
    CASE e = "" -> TRUE
      [] e = "TimeoutExpired" -> TRUE
      [] OTHER -> FALSE

\* What run_vzdump returns when subprocess.run raises e ("" when it returns)
RunResult(e) ==
    CASE e = "" -> TRUE
      [] e = "CalledProcessError" -> FALSE
      [] e = "FileNotFoundError" -> FALSE
      [] e = "TimeoutExpired" -> FALSE
      [] OTHER -> FALSE

\* The entry lines 73-88 log for the result
ResultEntry(e, k) ==
    IF e = "" THEN <<"INFO", "Backup successfully completed", k>>
    ELSE <<"ERROR", e, k>>

----------------------------------------------------------------------------
(* The configurations read from config.yaml *)

Join5(a, b, c, d, e) == a \o <<" ">> \o b \o <<" ">> \o c \o <<" ">> \o d \o <<" ">> \o e

Star == <<"*">>

\* minute and hour fields: wildcard, in range, out of range, not a number
MinuteFields == {Star, <<"0">>, <<"3", "0">>, <<"6", "0">>, <<"x">>, <<"-", "1">>}
HourFields == {Star, <<"0">>, <<"2", "4">>, <<"3", "0">>, <<"x">>}

ScheduleTexts ==
    {Join5(m, h, Star, Star, Star) : m \in MinuteFields, h \in HourFields}
    \cup { <<>>,
           Star \o <<" ">> \o Star \o <<" ">> \o Star \o <<" ">> \o Star,
           Join5(Star, Star, Star, Star, Star) \o <<" ">> \o Star,
           Join5(<<"0">>, <<"0">>, Star, Star, <<"7">>) \o <<" ">> \o <<"x">>,
           <<" ">> \o Join5(Star, Star \o <<" ">>, Star, Star, Star) \o <<" ">> }

NodeName(k) ==
    CASE k = 1 -> "pve1" [] k = 2 -> "pve2" [] k = 3 -> "pve3" [] OTHER -> "pveN"

NodeConfig(k) == [shortname |-> PyStr(<<NodeName(k)>>), fqdn |-> PyStr(<<NodeName(k)>>)]

Without(d, k) == [x \in DOMAIN d \ {k} |-> d[x]]

GlobalConfig(nodes, text) ==
    [mailto |-> PyStr(<<"root@example.org">>), fleecing |-> PyInt(0),
     bwlimit |-> PyInt(0), pbs_storage |-> PyStr(<<"pbs">>),
     notes_template |-> PyStr(<<"{{guestname}}">>),
     mailnotification |-> PyStr(<<"failure">>),
     schedule |-> text, nodes |-> nodes]

\* The node lists: all nodes well formed, or one node without a key
NodeLists ==
    UNION { { [k \in 1..n |-> NodeConfig(k)] }
            \cup { [k \in 1..n |-> IF k = bad THEN Without(NodeConfig(k), key)
                                   ELSE NodeConfig(k)]
                   : bad \in 1..n, key \in {"fqdn", "shortname"} }
            : n \in 1..MaxNodes }

\* The configurations: well formed ones, and ones with a key missing or a
\* parameter that is no string
Configs ==
    { GlobalConfig(nodes, text) : nodes \in NodeLists, text \in ScheduleTexts }
    \cup { Without(GlobalConfig([k \in 1..MaxNodes |-> NodeConfig(k)],
                                Join5(Star, Star, Star, Star, Star)), "mailto"),
           [GlobalConfig([k \in 1..MaxNodes |-> NodeConfig(k)],
                         Join5(Star, Star, Star, Star, Star))
               EXCEPT !["mailto"] = PyInt(0)],
           Without(GlobalConfig([k \in 1..MaxNodes |-> NodeConfig(k)],
                                Join5(Star, Star, Star, Star, Star)), "schedule"),
           Without(GlobalConfig([k \in 1..MaxNodes |-> NodeConfig(k)],
                                Join5(Star, Star, Star, Star, Star)), "nodes") }

StartTimes == {0, LateStart}

\* The schedule texts of the parser: literals at the ends of their ranges and
\* beyond, with and without values in the three fields main does not read
ParseTexts ==
    { Join5(m, h, d, mo, w) :
        m \in {Star, <<"0">>, <<"5">>, <<"3", "0">>, <<"5", "9">>, <<"6", "0">>,
               <<"0", "0", "7">>},
        h \in {Star, <<"0">>, <<"7">>, <<"2", "3">>, <<"2", "4">>},
        d \in {Star, <<"1">>}, mo \in {Star, <<"1", "2">>}, w \in {Star, <<"0">>} }
    \cup { Star \o <<" ">> \o Star \o <<" ">> \o Star \o <<" ">> \o Star }

ParseConfigs == { GlobalConfig(<<NodeConfig(1)>>, text) : text \in ParseTexts }

\* The exclude_vms values of a node and of the configuration: no key, or a
\* list of at most MaxExclude guest ids
VmIds == {100, 101}

IdLists == UNION { [1..n -> {PyInt(v) : v \in VmIds}] : n \in 0..MaxExclude }

ExcludeOptions ==
    { [present |-> FALSE, ids |-> <<>>] }
    \cup { [present |-> TRUE, ids |-> l] : l \in IdLists }

WithExclude(d, opt) ==
    IF ~opt.present THEN d
    ELSE [x \in DOMAIN d \cup {"exclude_vms"} |->
            IF x = "exclude_vms" THEN PyList(opt.ids) ELSE d[x]]

CommandConfigs ==
    { WithExclude(GlobalConfig(<<WithExclude(NodeConfig(1), n)>>,
                               Join5(Star, Star, Star, Star, Star)), g) :
        n \in ExcludeOptions, g \in ExcludeOptions }

----------------------------------------------------------------------------
(* The program *)

Running == exitCode = -1

Entry(level, msg, k) == <<level, msg, k>>

Init ==
    /\ pc = "load_config"
    /\ now \in StartTimes
    /\ startedAt = now
    /\ config = <<>>
    /\ jobs = <<>>
    /\ idx = 0
    /\ ret = TRUE
    /\ inflight = {}
    /\ log = <<>>
    /\ exitCode = -1
    /\ cycles = 0
    /\ invoked = <<>>
    /\ firedFor = <<>>
    /\ caught = 0
    /\ interruptedAt = ""

\* load_config, lines 20-24, and main, lines 110-111: the file is read
LoadConfig ==
    /\ pc = "load_config"
    /\ \E c \in Configs : config' = c
    /\ log' = Append(log, Entry("INFO", "Configuration loaded", 0))
    /\ pc' = "parse_schedule"
    /\ UNCHANGED <<now, jobs, idx, ret, inflight, exitCode, cycles, invoked,
                   firedFor, caught, startedAt, interruptedAt>>

\* load_config, lines 25-33: no file, no YAML, another error: exit(1)
LoadConfigFails ==
    /\ pc = "load_config"
    /\ \E e \in {"Configuration file not found", "YAML parsing error",
                 "Unexpected error while loading configuration"} :
          log' = Append(log, Entry("ERROR", e, 0))
    /\ pc' = "exited"
    /\ exitCode' = 1
    /\ UNCHANGED <<now, config, jobs, idx, ret, inflight, cycles, invoked,
                   firedFor, caught, startedAt, interruptedAt>>

\* main, lines 113-133 and 139: the schedule is registered
RegisterSchedule ==
    /\ pc = "parse_schedule"
    /\ LET r == Startup(config, now) IN
       /\ r.raised = ""
       /\ jobs' = r.jobs
    /\ log' = log \o <<Entry("INFO", "Backup scheduled", 0),
                       Entry("INFO", "Orchestrator started", 0)>>
    /\ pc' = "warm_up"
    /\ UNCHANGED <<now, config, idx, ret, inflight, exitCode, cycles, invoked,
                   firedFor, caught, startedAt, interruptedAt>>

\* main, lines 135-137: the ValueError of the try block: logged, exit(1)
ScheduleRejected ==
    /\ pc = "parse_schedule"
    /\ LET r == Startup(config, now) IN
       /\ r.raised # ""
       /\ HandledAtStartup(r.raised)
    /\ log' = Append(log, Entry("ERROR", "Invalid 'schedule' format", 0))
    /\ pc' = "exited"
    /\ exitCode' = 1
    /\ UNCHANGED <<now, config, jobs, idx, ret, inflight, cycles, invoked,
                   firedFor, caught, startedAt, interruptedAt>>

\* main, lines 113-137: an exception of the try block that is no ValueError
\* leaves main: the interpreter prints the traceback and exits with 1
ScheduleCrashes ==
    /\ pc = "parse_schedule"
    /\ LET r == Startup(config, now) IN
       /\ r.raised # ""
       /\ ~HandledAtStartup(r.raised)
    /\ pc' = "crashed"
    /\ exitCode' = 1
    /\ UNCHANGED <<now, config, jobs, idx, ret, inflight, log, cycles, invoked,
                   firedFor, caught, startedAt, interruptedAt>>

\* main, line 141: time.sleep(5)
WarmUp ==
    /\ pc = "warm_up"
    /\ now' = now + WarmUpDelay
    /\ pc' = "run_pending"
    /\ UNCHANGED <<config, jobs, idx, ret, inflight, log, exitCode, cycles,
                   invoked, firedFor, caught, startedAt, interruptedAt>>

\* Scheduler.run_pending and Job.run, called at line 148, up to the call of
\* backup_job; backup_job, lines 93-96, up to the first node
RunPendingDue ==
    /\ pc = "run_pending"
    /\ now - startedAt <= MaxElapsed
    /\ cycles < MaxCycles
    /\ Len(jobs) > 0
    /\ ShouldRun(jobs[1], now)
    /\ cycles' = cycles + 1
    /\ firedFor' = Append(firedFor, jobs[1].next_run)
    /\ log' = <<Entry("INFO", "Starting backup cycle", 0)>>
    /\ invoked' = <<>>
    /\ idx' = 1
    /\ IF ~HasKey(config, "nodes")
       THEN pc' = "except" /\ caught' = caught + 1
       ELSE /\ pc' = IF Len(config["nodes"]) > 0 THEN "run_vzdump"
                     ELSE "cycle_end"
            /\ caught' = caught
    /\ UNCHANGED <<now, config, jobs, ret, inflight, exitCode, startedAt,
                   interruptedAt>>

\* Scheduler.run_pending, called at line 148, with no job due
RunPendingIdle ==
    /\ pc = "run_pending"
    /\ now - startedAt <= MaxElapsed
    /\ cycles < MaxCycles
    /\ ~(Len(jobs) > 0 /\ ShouldRun(jobs[1], now))
    /\ pc' = "sleep"
    /\ UNCHANGED <<now, config, jobs, idx, ret, inflight, log, exitCode, cycles,
                   invoked, firedFor, caught, startedAt, interruptedAt>>

\* main, line 150: time.sleep(10)
Sleep ==
    /\ pc = "sleep"
    /\ now' = now + PollInterval
    /\ pc' = "run_pending"
    /\ UNCHANGED <<config, jobs, idx, ret, inflight, log, exitCode, cycles,
                   invoked, firedFor, caught, startedAt, interruptedAt>>

\* backup_job, line 97, calls run_vzdump: lines 38-69 build and log the
\* command.  An exception of these lines is raised outside run_vzdump's try
\* block: it leaves run_vzdump, backup_job, Job.run (before it sets last_run
\* and next_run) and run_pending, and reaches line 154 of main.
CallRunVzdump ==
    /\ pc = "run_vzdump"
    /\ invoked' = Append(invoked, idx)
    /\ LET b == BuildCommand(config["nodes"][idx], config) IN
       IF b.raised # ""
       THEN /\ pc' = "except"
            /\ caught' = caught + 1
            /\ log' = log
       ELSE /\ pc' = "subprocess_run"
            /\ caught' = caught
            /\ log' = log \o <<Entry("INFO", "Running backup on node", idx),
                               Entry("INFO", "Command", idx)>>
    /\ UNCHANGED <<now, config, jobs, idx, ret, inflight, exitCode, cycles,
                   firedFor, startedAt, interruptedAt>>

\* run_vzdump, line 72: subprocess.run starts the ssh child
Spawn ==
    /\ pc = "subprocess_run"
    /\ inflight' = inflight \cup
          {[cycle |-> cycles, node |-> idx,
            cmd |-> BuildCommand(config["nodes"][idx], config).cmd]}
    /\ pc' = "communicate"
    /\ UNCHANGED <<now, config, jobs, idx, ret, log, exitCode, cycles, invoked,
                   firedFor, caught, startedAt, interruptedAt>>

\* run_vzdump, lines 72 and 81-83, 87-89: the child cannot be started
SpawnFails ==
    /\ pc = "subprocess_run"
    /\ \E e \in {"FileNotFoundError", "OSError"} :
          /\ ret' = RunResult(e)
          /\ log' = Append(log, ResultEntry(e, idx))
    /\ pc' = "returned"
    /\ UNCHANGED <<now, config, jobs, idx, inflight, exitCode, cycles, invoked,
                   firedFor, caught, startedAt, interruptedAt>>

\* The child this thread waits for
Child == {c \in inflight : c.cycle = cycles /\ c.node = idx}

\* Reaped with the child left running when subprocess.run is left
ReapedNobody(running, child) == running

\* What is left in flight when subprocess.run is left: it returns or raises
\* only after the child has ended or was killed and waited for
Reaped(running, child) == running \ child

\* run_vzdump, lines 72-80, 87-89: the child ends within the timeout, with
\* exit status 0, with another one, or subprocess.run fails on its output
ChildEnds ==
    /\ pc = "communicate"
    /\ \E e \in {"", "CalledProcessError", "UnicodeDecodeError"},
          d \in {ShortRun, LongRun} :
          /\ now' = now + d
          /\ ret' = RunResult(e)
          /\ log' = Append(log, ResultEntry(e, idx))
    /\ inflight' = Reaped(inflight, Child)
    /\ pc' = "returned"
    /\ UNCHANGED <<config, jobs, idx, exitCode, cycles, invoked, firedFor,
                   caught, startedAt, interruptedAt>>

\* run_vzdump, lines 72, 84-86: the child runs into timeout=1200:
\* subprocess.run kills it, waits for it and raises TimeoutExpired
ChildTimesOut ==
    /\ pc = "communicate"
    /\ now' = now + InvocationTimeout
    /\ ret' = RunResult("TimeoutExpired")
    /\ log' = Append(log, ResultEntry("TimeoutExpired", idx))
    /\ inflight' = Reaped(inflight, Child)
    /\ pc' = "returned"
    /\ UNCHANGED <<config, jobs, idx, exitCode, cycles, invoked, firedFor,
                   caught, startedAt, interruptedAt>>

\* AfterNode with the loop left at the first failure
AfterNodeBreak(k, n, r) == IF r /\ k < n THEN "run_vzdump" ELSE "cycle_end"

\* The position of backup_job after node k of n returned r (lines 96-98):
\* a failure or not, the loop goes on to the next node
AfterNode(k, n, r) == IF k < n THEN "run_vzdump" ELSE "cycle_end"

\* backup_job, lines 96-98: the warning of a failure, and the next node
NextNode ==
    /\ pc = "returned"
    /\ log' = IF ~ret
              THEN Append(log, Entry("WARNING", "Backup of node failed", idx))
              ELSE log
    /\ pc' = AfterNode(idx, Len(config["nodes"]), ret)
    /\ idx' = idx + 1
    /\ UNCHANGED <<now, config, jobs, ret, inflight, exitCode, cycles, invoked,
                   firedFor, caught, startedAt, interruptedAt>>

\* Job.run after the job function returned: last_run and the next run
Rescheduled(job, t) ==
    [job EXCEPT !.last_run = t, !.next_run = NextRun(job.unit, job.at_time, t)]

\* backup_job, lines 100-102, then Job.run sets last_run and next_run, and
\* run_pending returns to line 150
CycleEnd ==
    /\ pc = "cycle_end"
    /\ log' = Append(log, Entry("INFO", "Backup cycle completed", 0))
    /\ jobs' = <<Rescheduled(jobs[1], now)>>
    /\ pc' = "sleep"
    /\ UNCHANGED <<now, config, idx, ret, inflight, exitCode, cycles, invoked,
                   firedFor, caught, startedAt, interruptedAt>>

\* AfterFault with the loop left by the handler
AfterFaultBreak(p) == "stopped"

\* main, lines 154-155: an Exception of the loop body is logged; the loop
\* goes on with the next iteration, line 145
AfterFault(p) == "run_pending"

ExceptHandler ==
    /\ pc = "except"
    /\ log' = Append(log, Entry("ERROR", "Unexpected error in main loop", 0))
    /\ pc' = AfterFault(pc)
    /\ UNCHANGED <<now, config, jobs, idx, ret, inflight, exitCode, cycles,
                   invoked, firedFor, caught, startedAt, interruptedAt>>

\* InTry with the try block around the sleep only
InTrySleepOnly(p) == p \in {"sleep"}

\* The positions inside the try block of the main loop, lines 144-150,
\* backup_job and run_vzdump included
InTry(p) ==
    p \in {"run_pending", "run_vzdump", "subprocess_run", "communicate",
           "returned", "cycle_end", "sleep"}

\* KeyboardInterrupt, raised in the main thread wherever it is.  It is no
\* Exception: no handler of load_config or run_vzdump catches it.  Inside the
\* try block of the loop it reaches lines 151-153 (subprocess.run kills the
\* child on its way): logged, break, exit status 0.  Anywhere else nothing
\* catches it: traceback, and the process ends by SIGINT (status 130).
Interrupt ==
    /\ Running
    /\ interruptedAt = ""
    /\ interruptedAt' = pc
    /\ IF InTry(pc)
       THEN /\ log' = Append(log, Entry("INFO", "Orchestrator interrupted by user", 0))
            /\ pc' = "stopped"
            /\ exitCode' = 0
       ELSE /\ log' = log
            /\ pc' = "crashed"
            /\ exitCode' = 130
    /\ inflight' = {}
    /\ UNCHANGED <<now, config, jobs, idx, ret, cycles, invoked, firedFor,
                   caught, startedAt>>

Next ==
    \/ LoadConfig
    \/ LoadConfigFails
    \/ RegisterSchedule
    \/ ScheduleRejected
    \/ ScheduleCrashes
    \/ WarmUp
    \/ RunPendingDue
    \/ RunPendingIdle
    \/ Sleep
    \/ CallRunVzdump
    \/ Spawn
    \/ SpawnFails
    \/ ChildEnds
    \/ ChildTimesOut
    \/ NextNode
    \/ CycleEnd
    \/ ExceptHandler
    \/ Interrupt

Spec == Init /\ [][Next]_vars

----------------------------------------------------------------------------
(* The parser alone: main, lines 113-137, on every text of ParseTexts *)

\* The state main is in when load_config has returned
InitParse ==
    /\ pc = "parse_schedule"
    /\ now \in StartTimes
    /\ startedAt = now
    /\ config \in ParseConfigs
    /\ jobs = <<>>
    /\ idx = 0
    /\ ret = TRUE
    /\ inflight = {}
    /\ log = <<Entry("INFO", "Configuration loaded", 0)>>
    /\ exitCode = -1
    /\ cycles = 0
    /\ invoked = <<>>
    /\ firedFor = <<>>
    /\ caught = 0
    /\ interruptedAt = ""

NextParse ==
    \/ RegisterSchedule
    \/ ScheduleRejected
    \/ ScheduleCrashes

SpecParse == InitParse /\ [][NextParse]_vars

----------------------------------------------------------------------------
(* The command of one node: run_vzdump, lines 38-72, on every combination of
   exclusion lists of CommandConfigs *)

\* The state at the first call of run_vzdump: "* * * * *" was registered at
\* startedAt, and the first poll that found the job due started the cycle
InitCommand ==
    /\ pc = "run_vzdump"
    /\ startedAt \in StartTimes
    /\ now = startedAt + SecondsPerMinute + WarmUpDelay
    /\ config \in CommandConfigs
    /\ jobs = <<Job("minutes", <<>>, startedAt)>>
    /\ idx = 1
    /\ ret = TRUE
    /\ inflight = {}
    /\ log = <<Entry("INFO", "Starting backup cycle", 0)>>
    /\ exitCode = -1
    /\ cycles = 1
    /\ invoked = <<>>
    /\ firedFor = <<startedAt + SecondsPerMinute>>
    /\ caught = 0
    /\ interruptedAt = ""

NextCommand ==
    \/ CallRunVzdump
    \/ Spawn

SpecCommand == InitCommand /\ [][NextCommand]_vars

----------------------------------------------------------------------------
(* What the claims speak of *)

NumNodes == IF HasKey(config, "nodes") THEN Len(config["nodes"]) ELSE 0

\* The positions of a cycle: backup_job and what it calls
InCycle(p) ==
    p \in {"run_vzdump", "subprocess_run", "communicate", "returned", "cycle_end"}

\* The positions of run_vzdump
InRunVzdump(p) == p \in {"run_vzdump", "subprocess_run", "communicate"}

Logged(level, msg) == \E i \in 1..Len(log) : log[i][1] = level /\ log[i][2] = msg

LoggedFor(level, msg, k) == \E i \in 1..Len(log) : log[i] = <<level, msg, k>>

LastLogged(level, msg) ==
    Len(log) > 0 /\ log[Len(log)][1] = level /\ log[Len(log)][2] = msg

InOrder(seq) == \A i \in 1..Len(seq) : seq[i] = i

\* The step is not the arrival of the interrupt
NoInterrupt == interruptedAt' = interruptedAt

----------------------------------------------------------------------------
(* C1: in every cycle the nodes are invoked in the configured order, none
   skipped, none twice, and a failure outcome of a node never ends the
   cycle: the cycle reaches its end, and is completed, only with every
   configured node invoked exactly once, whichever nodes failed. *)
C1_EveryNodeOnceInOrder ==
    /\ InOrder(invoked)
    /\ Len(invoked) <= NumNodes
    /\ pc = "run_vzdump" => Len(invoked) = idx - 1
    /\ pc \in {"subprocess_run", "communicate", "returned"} => Len(invoked) = idx
    /\ pc = "cycle_end" => Len(invoked) = NumNodes
    /\ Logged("INFO", "Backup cycle completed") => Len(invoked) = NumNodes

\* A cycle over three nodes is completed, the second node having failed
C1_Witness ==
    /\ NumNodes = 3
    /\ LoggedFor("WARNING", "Backup of node failed", 2)
    /\ ~LoggedFor("WARNING", "Backup of node failed", 1)
    /\ Logged("INFO", "Backup cycle completed")
    /\ invoked = <<1, 2, 3>>

(* C2: run_vzdump never raises: from every position inside it the program
   goes on inside it or returns an outcome to backup_job (unless the
   interrupt arrives). *)
C2_RunVzdumpAlwaysReturns ==
    [][(InRunVzdump(pc) /\ NoInterrupt)
          => (InRunVzdump(pc') \/ pc' = "returned")]_vars

(* C3: a cycle that started is left only by its completion: from every
   position of a cycle the program goes on inside the cycle or completes it
   (unless the interrupt arrives). *)
C3_CycleLeftOnlyCompleted ==
    [][(InCycle(pc) /\ NoInterrupt)
          => \/ InCycle(pc')
             \/ pc' = "sleep" /\ LastLogged("INFO", "Backup cycle completed")']_vars

(* C4: an invocation that runs into the timeout returns a failure to
   backup_job, leaves nothing in flight, and backup_job goes on to the next
   configured node (to the end of the cycle after the last one). *)
C4_TimeoutFailsAndCycleGoesOn ==
    [][/\ (pc = "communicate" /\ now' = now + InvocationTimeout)
             => (pc' = "returned" /\ ret' = FALSE /\ inflight' = {}
                 /\ LastLogged("ERROR", "TimeoutExpired")')
       /\ (pc = "returned" /\ LastLogged("ERROR", "TimeoutExpired") /\ NoInterrupt)
             => /\ ret = FALSE
                /\ LastLogged("WARNING", "Backup of node failed")'
                /\ idx' = idx + 1
                /\ pc' = IF idx < NumNodes THEN "run_vzdump" ELSE "cycle_end"]_vars

\* The second node is invoked after the first one timed out
C4_Witness ==
    /\ pc = "communicate"
    /\ idx = 2
    /\ LoggedFor("ERROR", "TimeoutExpired", 1)
    /\ LoggedFor("WARNING", "Backup of node failed", 1)

(* C5: at most one remote invocation is in flight, and it is the one of the
   node the current cycle is at: the one of the node before has returned,
   and none of an earlier cycle is left. *)
C5_OneInvocationInFlight ==
    /\ Cardinality(inflight) <= 1
    /\ \A c \in inflight : c.cycle = cycles /\ c.node = idx
    /\ inflight # {} => pc = "communicate"

\* The second node of the second cycle is in flight
C5_Witness ==
    /\ inflight # {}
    /\ cycles = 2
    /\ idx = 2

(* C6: a fault raised inside an iteration of the main loop, a running cycle
   included, does not end the process: it reaches the handler of the loop,
   which logs it and goes on with the next iteration, the job still
   registered; and a job that is due after a fault was caught starts a
   cycle as any other. *)
C6_FaultCaughtLoopGoesOn ==
    [][/\ ((InTry(pc) \/ pc = "except") /\ NoInterrupt)
             => (exitCode' = -1 /\ (InTry(pc') \/ pc' = "except"))
       /\ (pc = "except" /\ NoInterrupt)
             => /\ pc' = "run_pending"
                /\ LastLogged("ERROR", "Unexpected error in main loop")'
                /\ jobs' = jobs
       /\ (pc = "run_pending" /\ caught > 0 /\ NoInterrupt
             /\ ShouldRun(jobs[1], now))
             => cycles' = cycles + 1]_vars

\* A cycle runs after the loop caught a fault
C6_Witness ==
    /\ caught > 0
    /\ pc = "communicate"
    /\ Logged("INFO", "Starting backup cycle")
    /\ ~Logged("ERROR", "Unexpected error in main loop")

(* C7: no node is invoked again before the next due time of the
   recurrence: whenever a remote invocation is in flight, its cycle was
   started for a later due time than every cycle before it, whether that
   one failed, was aborted by a fault or completed. *)
C7_NoRerunBeforeNextDue ==
    inflight # {}
       => \A i, j \in 1..Len(firedFor) : i < j => firedFor[i] < firedFor[j]

(* C8: an interrupt that arrives after the start-up, wherever the program
   is, stops it cleanly: the shutdown entry is the last one logged and the
   exit status is 0. *)
C8_InterruptStopsCleanly ==
    interruptedAt \notin {"", "load_config", "parse_schedule"}
       => /\ pc = "stopped"
          /\ exitCode = 0
          /\ LastLogged("INFO", "Orchestrator interrupted by user")

(* C9, as claimed: when the loop stops after an interrupt that arrived
   while a cycle was running, the cycle has invoked every configured node
   and has logged its completion. *)
C9_CycleCompletedBeforeStop ==
    (InCycle(interruptedAt) /\ pc = "stopped")
       => /\ Len(invoked) = NumNodes
          /\ Logged("INFO", "Backup cycle completed")

(* C9, amended: an interrupt that arrives while a cycle is running takes
   effect at once: the invocation in progress is cancelled, no further node
   is invoked, no completion is logged; the loop logs the shutdown and the
   process ends with status 0. *)
C9_InterruptAbortsCycle ==
    InCycle(interruptedAt)
       => /\ pc = "stopped"
          /\ exitCode = 0
          /\ inflight = {}
          /\ Len(invoked) = IF interruptedAt \in {"run_vzdump", "cycle_end"}
                            THEN idx - 1 ELSE idx
          /\ ~Logged("INFO", "Backup cycle completed")
          /\ LastLogged("INFO", "Orchestrator interrupted by user")

\* The interrupt arrived with the first of three nodes in flight
C9_Witness ==
    /\ interruptedAt = "communicate"
    /\ pc = "stopped"
    /\ NumNodes = 3
    /\ invoked = <<1>>

\* A text of digits only
IsNumber(f) == Len(f) > 0 /\ \A i \in 1..Len(f) : f[i] \in Digits

\* The schedule texts C10 speaks of: not five fields, a minute or an hour
\* that is no wildcard and no number in range, or an hour with no minute
InvalidSchedule(text) ==
    LET f == Split(text) IN
    \/ Len(f) # 5
    \/ f[1] # Star /\ ~(IsNumber(f[1]) /\ IntOf(f[1]) <= 59)
    \/ f[2] # Star /\ ~(IsNumber(f[2]) /\ IntOf(f[2]) <= 23)
    \/ f[2] # Star /\ f[1] = Star

(* C10: with a schedule that is malformed or has a minute or hour out of
   range or not a number, the start-up is fatal: once the schedule was
   looked at the process has ended with a status other than 0, the error
   logged, no job registered and no node invoked. *)
C10_InvalidScheduleFatalAndLogged ==
    (pc \notin {"load_config", "parse_schedule"} /\ interruptedAt = ""
        /\ HasKey(config, "schedule") /\ InvalidSchedule(config["schedule"]))
       => /\ exitCode \notin {-1, 0}
          /\ LastLogged("ERROR", "Invalid 'schedule' format")
          /\ jobs = <<>>
          /\ cycles = 0
          /\ invoked = <<>>

\* The keys a configuration and each of its nodes must have
RequiredKeys ==
    {"mailto", "fleecing", "bwlimit", "pbs_storage", "notes_template",
     "mailnotification", "schedule", "nodes"}

RequiredNodeKeys == {"shortname", "fqdn"}

LacksRequiredKey(cfg) ==
    \/ \E k \in RequiredKeys : ~HasKey(cfg, k)
    \/ /\ HasKey(cfg, "nodes")
       /\ \E i \in 1..Len(cfg["nodes"]) :
             \E k \in RequiredNodeKeys : ~HasKey(cfg["nodes"][i], k)

(* C11: a configuration that lacks a required key is rejected at start-up,
   before the main loop: with such a configuration loaded no remote
   invocation is ever in flight. *)
C11_IncompleteConfigNeverInvokes ==
    (pc # "load_config" /\ LacksRequiredKey(config)) => inflight = {}

\* The job registered at start-up, its period and its offset in the period
Registered(unit) == Len(jobs) > 0 /\ jobs[1].unit = unit

Period(job) ==
    CASE job.unit = "minutes" -> SecondsPerMinute
      [] job.unit = "hours" -> SecondsPerHour
      [] job.unit = "days" -> SecondsPerDay

Offset(job) ==
    CASE job.unit = "hours" -> job.at_time[2] * SecondsPerMinute + job.at_time[3]
      [] job.unit = "days" -> job.at_time[1] * SecondsPerHour
                                + job.at_time[2] * SecondsPerMinute + job.at_time[3]

\* The time the current next_run was computed at: registration, or the end of
\* the last completed cycle
ComputedAt(job) == IF job.last_run >= 0 THEN job.last_run ELSE startedAt

(* C12 as stated: under "* * * * *" every elapsed minute since registration
   has had exactly one cycle whenever the loop is about to sleep, whatever the
   duration of the cycles. *)
C12_OneCyclePerElapsedMinute ==
    (Registered("minutes") /\ pc = "sleep")
        => cycles = (now - startedAt) \div SecondsPerMinute

(* C12 amended: under "* * * * *" the recurrence is due one minute after
   registration and then one minute after the end of each completed cycle, not
   on minute boundaries: no cycle starts before its due time, and the minutes
   that elapse while a cycle runs get no cycle of their own. *)
C12_DueOneMinuteAfterCompletion ==
    Registered("minutes") =>
        /\ jobs[1].next_run = ComputedAt(jobs[1]) + SecondsPerMinute
        /\ \A i \in 1..Len(firedFor) :
              /\ firedFor[i] >= startedAt + SecondsPerMinute
              /\ firedFor[i] <= jobs[1].next_run
        /\ InCycle(pc) => now >= firedFor[cycles]
        /\ \A i, j \in 1..Len(firedFor) : i < j => firedFor[i] <= firedFor[j]
        /\ jobs[1].last_run >= 0 => jobs[1].last_run >= firedFor[1]

C12_Witness ==
    /\ Registered("minutes")
    /\ pc = "sleep"
    /\ cycles = 1
    /\ jobs[1].last_run >= 0
    /\ (now - startedAt) \div SecondsPerMinute = 2
    /\ now < jobs[1].next_run

(* C13 as stated: under an hourly or daily rule no fire is skipped, also when
   the previous cycle ran long: after a cycle the recurrence is due at the
   occurrence that follows the one the cycle was started for. *)
C13_NoSkippedFire ==
    (Len(jobs) > 0 /\ jobs[1].unit \in {"hours", "days"} /\ jobs[1].last_run >= 0)
        => jobs[1].next_run = firedFor[Len(firedFor)] + Period(jobs[1])

(* C13 amended: under an hourly or daily rule every due time is an occurrence
   of the rule (minute m of an hour, h:m of a day), namely the first one
   strictly after registration or after the end of the last completed cycle,
   rollovers included; no cycle starts before its due time and a completed
   cycle is never started again for the same occurrence; an occurrence that
   passes while a cycle is running is skipped. *)
C13_DueAtFirstOccurrenceAfterCompletion ==
    (Len(jobs) > 0 /\ jobs[1].unit \in {"hours", "days"}) =>
        /\ jobs[1].next_run % Period(jobs[1]) = Offset(jobs[1])
        /\ jobs[1].next_run > ComputedAt(jobs[1])
        /\ jobs[1].next_run - Period(jobs[1]) <= ComputedAt(jobs[1])
        /\ \A i \in 1..Len(firedFor) :
              firedFor[i] % Period(jobs[1]) = Offset(jobs[1])
        /\ InCycle(pc) => now >= firedFor[cycles]
        /\ jobs[1].last_run >= 0 => jobs[1].next_run > firedFor[Len(firedFor)]

C13_Witness ==
    /\ Registered("hours")
    /\ startedAt = LateStart
    /\ firedFor = <<SecondsPerDay>>
    /\ jobs[1].last_run >= 0
    /\ jobs[1].next_run = SecondsPerDay + 2 * SecondsPerHour

(* C14: the first trigger of a process started at time t is the first
   occurrence of the rule strictly after t, computed from t alone: no cycle is
   started for a time at or before t, under a daily rule whose h:m has passed
   today the first cycle is due at h:m of the next day, and under "* * * * *"
   it is due one minute after registration. *)
C14_FirstTriggerStrictlyAfterStart ==
    Len(jobs) > 0 =>
        LET first == IF cycles = 0 THEN jobs[1].next_run ELSE firedFor[1] IN
        /\ first > startedAt
        /\ first - Period(jobs[1]) <= startedAt
        /\ jobs[1].unit = "minutes" => first = startedAt + SecondsPerMinute
        /\ jobs[1].unit # "minutes" => first % Period(jobs[1]) = Offset(jobs[1])
        /\ cycles > 0 => now >= first
        /\ \A i \in 1..Len(firedFor) : firedFor[i] >= first

C14_Witness ==
    /\ Registered("days")
    /\ startedAt = LateStart
    /\ cycles = 1
    /\ firedFor = <<SecondsPerDay>>
    /\ InCycle(pc)
    /\ now >= SecondsPerDay

\* A minute or hour literal: a numeral of one or two digits, in range
Literal(f, max) == Len(f) \in {1, 2} /\ IsNumber(f) /\ IntOf(f) <= max

(* C15: for a 5-field schedule text whose minute and hour fields are the
   wildcard or a literal in range, the registered job depends on these two
   fields only: both wildcard gives the every-minute job, hour wildcard and
   minute m the hourly job at minute m, hour h and minute m the daily job at
   h:m; the three other fields change nothing. *)
C15_VariantFromMinuteAndHour ==
    pc # "parse_schedule" =>
        LET parts == Split(config["schedule"])
            minute == parts[1]
            hour == parts[2]
        IN  Len(parts) = FieldCount =>
            /\ (minute = Star /\ hour = Star) =>
                  /\ pc = "warm_up" /\ Len(jobs) = 1
                  /\ jobs[1].unit = "minutes"
            /\ (Literal(minute, 59) /\ hour = Star) =>
                  /\ pc = "warm_up" /\ Len(jobs) = 1
                  /\ jobs[1].unit = "hours"
                  /\ jobs[1].at_time = <<0, IntOf(minute), 0>>
            /\ (Literal(minute, 59) /\ Literal(hour, 23)) =>
                  /\ pc = "warm_up" /\ Len(jobs) = 1
                  /\ jobs[1].unit = "days"
                  /\ jobs[1].at_time = <<IntOf(hour), IntOf(minute), 0>>

C15_Witness ==
    /\ pc = "warm_up"
    /\ Split(config["schedule"]) = << <<"5">>, <<"7">>, <<"1">>, <<"1", "2">>, <<"0">> >>
    /\ jobs[1].unit = "days"
    /\ jobs[1].at_time = <<7, 5, 0>>

\* The guest ids of a comma separated text
RECURSIVE IdsFrom(_, _, _)
IdsFrom(text, i, word) ==
    IF i > Len(text) THEN <<IntOf(word)>>
    ELSE IF text[i] = "," THEN <<IntOf(word)>> \o IdsFrom(text, i + 1, <<>>)
    ELSE IdsFrom(text, i + 1, Append(word, text[i]))

\* The exclusion argument of a command and the ids it carries
ExcludeAt(cmd) == {i \in 1..Len(cmd) : cmd[i] = PyStr(<<"--exclude">>)}

HasExcludeArg(cmd) == ExcludeAt(cmd) # {}

ExcludeArg(cmd) ==
    IF ExcludeAt(cmd) = {} THEN <<>>
    ELSE LET i == CHOOSE j \in ExcludeAt(cmd) : TRUE IN
         IF i = Len(cmd) THEN <<>> ELSE IdsFrom(cmd[i + 1].val, 1, <<>>)

\* The ids of the exclude_vms list of a node or of the configuration
ConfiguredIds(d) ==
    [i \in 1..Len(d["exclude_vms"].val) |-> d["exclude_vms"].val[i].val]

(* C16: the command started for a node carries exactly the node's ids when
   the node has a non-empty exclude_vms, whatever the global list; exactly the
   global ids when the node has no exclude_vms key and a global list exists
   (no argument when that list is empty); and no exclusion argument when
   neither has the key. *)
C16_NodeListOverridesGlobal ==
    \A c \in inflight :
        LET node_config == config["nodes"][c.node] IN
        /\ Cardinality(ExcludeAt(c.cmd)) <= 1
        /\ (HasKey(node_config, "exclude_vms")
              /\ Len(node_config["exclude_vms"].val) > 0) =>
              /\ HasExcludeArg(c.cmd)
              /\ ExcludeArg(c.cmd) = ConfiguredIds(node_config)
        /\ (~HasKey(node_config, "exclude_vms") /\ HasKey(config, "exclude_vms")) =>
              /\ ExcludeArg(c.cmd) = ConfiguredIds(config)
              /\ HasExcludeArg(c.cmd) <=> Len(config["exclude_vms"].val) > 0
        /\ (~HasKey(node_config, "exclude_vms") /\ ~HasKey(config, "exclude_vms")) =>
              ~HasExcludeArg(c.cmd)

C16_Witness ==
    \E c \in inflight :
        /\ HasKey(config["nodes"][c.node], "exclude_vms")
        /\ HasKey(config, "exclude_vms")
        /\ ConfiguredIds(config["nodes"][c.node]) = <<101>>
        /\ ConfiguredIds(config) = <<100, 101>>
        /\ ExcludeArg(c.cmd) = <<101>>

(* C17 as stated: for a node whose exclude_vms is present and empty while a
   non-empty global list exists, the command carries the global ids. *)
C17_EmptyNodeListFallsBackToGlobal ==
    \A c \in inflight :
        LET node_config == config["nodes"][c.node] IN
        (/\ HasKey(node_config, "exclude_vms")
         /\ Len(node_config["exclude_vms"].val) = 0
         /\ HasKey(config, "exclude_vms")
         /\ Len(config["exclude_vms"].val) > 0) =>
              /\ HasExcludeArg(c.cmd)
              /\ ExcludeArg(c.cmd) = ConfiguredIds(config)

(* C17 amended: the node's exclude_vms takes precedence whenever the key is
   present: for a node whose list is present and empty the command carries no
   exclusion argument, also when a non-empty global list exists. *)
C17_EmptyNodeListExcludesNothing ==
    \A c \in inflight :
        LET node_config == config["nodes"][c.node] IN
        (/\ HasKey(node_config, "exclude_vms")
         /\ Len(node_config["exclude_vms"].val) = 0) =>
              ~HasExcludeArg(c.cmd)

C17_Witness ==
    \E c \in inflight :
        /\ HasKey(config["nodes"][c.node], "exclude_vms")
        /\ HasKey(config, "exclude_vms")
        /\ ConfiguredIds(config["nodes"][c.node]) = <<>>
        /\ ConfiguredIds(config) = <<100, 101>>
        /\ ~HasExcludeArg(c.cmd)

(* C18: after the warm-up every due check is reached through the sleep of
   the poll interval, on every path of the loop body, the handler of a caught
   fault included: the program comes to the due check only from the warm-up
   or with the clock advanced by the poll interval. *)
C18_PollIntervalBetweenDueChecks ==
    [][(pc' = "run_pending" /\ pc # "run_pending")
          => \/ pc = "warm_up"
             \/ now' >= now + PollInterval]_vars

\* The entries of a cycle's log
IsStart(e) == e = Entry("INFO", "Starting backup cycle", 0)

IsAttempt(e) == e[1] = "INFO" /\ e[2] = "Running backup on node"

IsSuccess(e) == e[1] = "INFO" /\ e[2] = "Backup successfully completed"

IsFailure(e) == e[1] = "ERROR" /\ e[3] >= 1

IsWarning(e) == e[1] = "WARNING" /\ e[2] = "Backup of node failed"

IsCompletion(e) == e = Entry("INFO", "Backup cycle completed", 0)

IsShutdown(e) == e = Entry("INFO", "Orchestrator interrupted by user", 0)

(* C19: the log of a cycle is, in order: the cycle-start entry; for node 1,
   2, ... in configured order its attempt, its outcome and, right after a
   failure outcome and only then, one warning naming that node; then one
   completion entry, which is logged only with all N nodes attempted and as
   many warnings as failures. *)
C19_CycleLogInOrder ==
    cycles > 0 =>
        LET attempts == SelectSeq(log, IsAttempt)
            successes == SelectSeq(log, IsSuccess)
            failures == SelectSeq(log, IsFailure)
            warnings == SelectSeq(log, IsWarning)
            completions == SelectSeq(log, IsCompletion)
        IN  /\ IsStart(log[1])
            /\ Len(SelectSeq(log, IsStart)) = 1
            /\ Len(attempts) <= NumNodes
            /\ \A k \in 1..Len(attempts) : attempts[k][3] = k
            /\ \A i \in 1..Len(log) :
                  /\ IsAttempt(log[i]) => (IsStart(log[i - 1])
                                           \/ IsSuccess(log[i - 1])
                                           \/ IsWarning(log[i - 1]))
                  /\ (IsSuccess(log[i]) \/ IsFailure(log[i])) =>
                        /\ log[i - 2] = Entry("INFO", "Running backup on node", log[i][3])
                        /\ log[i][3] = Len(SelectSeq(SubSeq(log, 1, i), IsAttempt))
                  /\ IsWarning(log[i]) =>
                        IsFailure(log[i - 1]) /\ log[i - 1][3] = log[i][3]
                  /\ (IsFailure(log[i]) /\ i < Len(log)) =>
                        \/ log[i + 1] = Entry("WARNING", "Backup of node failed", log[i][3])
                        \/ IsShutdown(log[i + 1])
                  /\ (IsFailure(log[i]) /\ i = Len(log)) =>
                        pc = "returned" /\ ret = FALSE
                  /\ IsCompletion(log[i]) =>
                        /\ Len(SelectSeq(SubSeq(log, 1, i), IsAttempt)) = NumNodes
                        /\ Len(attempts) = NumNodes
                        /\ Len(successes) + Len(failures) = NumNodes
                        /\ Len(warnings) = Len(failures)
                        /\ NumNodes > 0 => (IsSuccess(log[i - 1]) \/ IsWarning(log[i - 1]))
            /\ Len(completions) <= 1

C19_Witness ==
    /\ NumNodes = 3
    /\ Len(SelectSeq(log, IsAttempt)) = 3
    /\ SelectSeq(log, IsWarning) = <<Entry("WARNING", "Backup of node failed", 2)>>
    /\ Len(SelectSeq(log, IsSuccess)) = 2
    /\ IsCompletion(log[Len(log)])
    /\ pc = "sleep"

\* The states of the main loop
Idle == pc \in {"run_pending", "sleep", "except"}

Stopped == exitCode # -1

(* C20: a cycle starts only from the due check of the idle loop, with no
   cycle running and the recurrence due; the loop is idle again only when the
   cycle is over (completed, or cut by a fault the loop caught) with no
   invocation left in flight; and once the process has stopped nothing more
   happens: no due check, no invocation. *)
C20_IdleRunningStopped ==
    [][/\ cycles' # cycles =>
             /\ pc = "run_pending" /\ ~Stopped
             /\ cycles' = cycles + 1
             /\ inflight = {}
             /\ Len(jobs) > 0 /\ now >= jobs[1].next_run
       /\ (InCycle(pc) /\ Idle') =>
             /\ inflight' = {}
             /\ \/ pc' = "sleep" /\ LastLogged("INFO", "Backup cycle completed")'
                \/ pc' = "except"
       /\ (InCycle(pc') /\ ~InCycle(pc)) => (pc = "run_pending" /\ cycles' = cycles + 1)
       /\ Idle => inflight = {}
       /\ ~Stopped
       /\ Stopped' => (inflight' = {} /\ ~Idle' /\ ~InCycle(pc'))]_vars

C20_Witness ==
    /\ pc = "stopped"
    /\ interruptedAt = "sleep"
    /\ cycles = 1
    /\ Logged("INFO", "Backup cycle completed")
    /\ inflight = {}

====
